---- MODULE Spec2Model ----
(***************************************************************************)
(* Model of HdWalletMoneroFactory (py_crypto_hd_wallet/monero/             *)
(* hd_wallet_monero_factory.py): the five static constructors of a Monero  *)
(* HD wallet, together with the collaborators they call (mnemonic          *)
(* generator and decoder, the Monero key derivation object, the wallet     *)
(* entity and the hex formatter).                                          *)
(*                                                                         *)
(* Byte strings are sequences of bytes (0..255), little-endian for         *)
(* scalars.  A phrase is a sequence of word indexes; the index DictSize is *)
(* a word outside the dictionary.  An absent optional value is the empty   *)
(* sequence, the default of the wallet constructor.                        *)
(***************************************************************************)
EXTENDS Integers, Sequences, FiniteSets, TLC

\* op, args : the entry point called last and its arguments
\* result   : what that call returned or raised, with the calls it made
\* prev     : the keys the caller got from the latest earlier successful
\*            CreateFromSeed or CreateFromPrivateKey call, with that call's
\*            entry point and input
VARIABLES op, args, result, prev

vars == <<op, args, result, prev>>

(***************************************************************************)
(* Bounds of the model.                                                    *)
(***************************************************************************)
\* order of the (scaled down) curve group: scalars are 0..GroupOrder-1
GroupOrder == 5
\* number of words of the (scaled down) dictionary
DictSize == 3
\* entropy values the secure random source may return: 0..MaxEntropy
MaxEntropy == 5

\* length in bytes of a key, and of the seed of the scheme
KeyLen == 32

(***************************************************************************)
(* Byte strings.                                                           *)
(***************************************************************************)
RECURSIVE DecodeFrom(_, _)
\* little-endian integer held by the bytes of b from position i on
DecodeFrom(b, i) == IF i > Len(b) THEN 0 ELSE b[i] + 256 * DecodeFrom(b, i + 1)

\* little-endian integer held by a byte string
DecodeInt(b) == DecodeFrom(b, 1)

RECURSIVE ByteOf(_, _)
\* byte i (from 1, lowest first) of the integer v
ByteOf(v, i) ==
    IF v = 0 THEN 0 ELSE IF i = 1 THEN v % 256 ELSE ByteOf(v \div 256, i - 1)

\* the n-byte little-endian encoding of v
EncodeInt(v, n) == [i \in 1..n |-> ByteOf(v, i)]

HexDigits == <<"0", "1", "2", "3", "4", "5", "6", "7",
               "8", "9", "a", "b", "c", "d", "e", "f">>

\* Utils.BytesToHexString: two hexadecimal digits per byte, in order
BytesToHexString(b) ==
    [i \in 1..(2 * Len(b)) |->
        IF i % 2 = 1 THEN HexDigits[(b[(i + 1) \div 2] \div 16) + 1]
        ELSE HexDigits[(b[i \div 2] % 16) + 1]]

(***************************************************************************)
(* Key derivation engine (class Monero of the curve library).              *)
(***************************************************************************)
NoKeys == [privSpend |-> <<>>, privView |-> <<>>, pubSpend |-> <<>>, pubView |-> <<>>]

\* a scalar encoding the engine accepts: the key length, not zero, reduced
IsValidScalar(b) ==
    /\ Len(b) = KeyLen
    /\ LET x == DecodeInt(b) IN x > 0 /\ x < GroupOrder

\* scalar reduction of arbitrary bytes modulo the group order
ScReduce(b) == EncodeInt(DecodeInt(b) % GroupOrder, KeyLen)

\* the one-way hash-to-scalar of the spend key (stand-in for the hash)
DeriveViewKeyFromSpendKey(privSpend) ==
    EncodeInt(1 + ((3 * DecodeInt(privSpend) + 2) % (GroupOrder - 1)), KeyLen)

\* encoding of the point scalar * G; only called on valid scalars
PublicFromPrivate(privScalar) == EncodeInt(2 * DecodeInt(privScalar) + 1, KeyLen)

\* a point encoding the engine accepts
IsValidPoint(b) ==
    /\ Len(b) = KeyLen
    /\ \E x \in 1..(GroupOrder - 1) : DecodeInt(b) = 2 * x + 1

\* Monero.FromPrivateSpendKey: MoneroKeyError (ok = FALSE) on an invalid scalar
Monero_FromPrivateSpendKey(privSpend) ==
    IF IsValidScalar(privSpend)
    THEN LET privView == DeriveViewKeyFromSpendKey(privSpend)
         IN  [ok |-> TRUE,
              keys |-> [privSpend |-> privSpend,
                        privView |-> privView,
                        pubSpend |-> PublicFromPrivate(privSpend),
                        pubView |-> PublicFromPrivate(privView)]]
    ELSE [ok |-> FALSE, keys |-> NoKeys]

\* Monero.FromSeed: reduce the seed to the spend scalar, then derive
Monero_FromSeed(seedBytes) == Monero_FromPrivateSpendKey(ScReduce(seedBytes))

\* Monero.FromWatchOnly: no private spend key; MoneroKeyError on a malformed key
Monero_FromWatchOnly(privView, pubSpend) ==
    IF IsValidScalar(privView) /\ IsValidPoint(pubSpend)
    THEN [ok |-> TRUE,
          keys |-> [privSpend |-> <<>>,
                    privView |-> privView,
                    pubSpend |-> pubSpend,
                    pubView |-> PublicFromPrivate(privView)]]
    ELSE [ok |-> FALSE, keys |-> NoKeys]

(***************************************************************************)
(* Seed/mnemonic transform (MoneroMnemonicGenerator, MoneroSeedGenerator). *)
(***************************************************************************)
\* members of the enumerations HdWalletMoneroWordsNum, HdWalletMoneroLanguages
WordsNumValues == {12, 13, 24, 25}
LanguageValues == <<"ENGLISH", "ITALIAN">>

\* position of a language; its dictionary is the block of words after it
LangIndex(lang) == CHOOSE i \in 1..Len(LanguageValues) : LanguageValues[i] = lang
WordOf(lang, idx) == (LangIndex(lang) - 1) * (DictSize + 1) + idx
WordIdx(w) == w % (DictSize + 1)
WordLang(w) == w \div (DictSize + 1)

RECURSIVE DigitOf(_, _)
\* digit i (from 1, lowest first) of e in base DictSize
DigitOf(e, i) ==
    IF e = 0 THEN 0 ELSE IF i = 1 THEN e % DictSize ELSE DigitOf(e \div DictSize, i - 1)

\* the k low digits of e in base DictSize, lowest first
Digits(e, k) == [i \in 1..k |-> DigitOf(e, i)]

RECURSIVE UnDigitsFrom(_, _)
UnDigitsFrom(d, i) == IF i > Len(d) THEN 0 ELSE d[i] + DictSize * UnDigitsFrom(d, i + 1)

\* the number whose base DictSize digits, lowest first, are d
UnDigits(d) == UnDigitsFrom(d, 1)

RECURSIVE SumFrom(_, _)
SumFrom(d, i) == IF i > Len(d) THEN 0 ELSE d[i] + SumFrom(d, i + 1)

SumSeq(d) == SumFrom(d, 1)

\* the checksum word of a sequence of word indexes: one of them, repeated
ChecksumIdx(d) == d[(SumSeq(d) % Len(d)) + 1]

\* MoneroMnemonicGenerator(lang).FromWordsNumber(words_num), the random source
\* having returned entropy: words_num words, the last one the checksum
GenerateMnemonic(words_num, lang, entropy) ==
    LET d == Digits(entropy, words_num - 1)
    IN  [i \in 1..words_num |->
            IF i < words_num THEN WordOf(lang, d[i]) ELSE WordOf(lang, ChecksumIdx(d))]

\* MoneroSeedGenerator(mnemonic).Generate(): err names the exception raised
MnemonicToSeed(phrase) ==
    LET n == Len(phrase)
        idx == [i \in 1..n |-> WordIdx(phrase[i])]
        data == SubSeq(idx, 1, n - 1)
        fail(e) == [err |-> e, seed |-> <<>>]
    IN  IF n \notin WordsNumValues THEN fail("ValueError")
        ELSE IF \E i \in 1..n : \/ idx[i] = DictSize
                                \/ WordLang(phrase[i]) >= Len(LanguageValues)
                                \/ WordLang(phrase[i]) # WordLang(phrase[1])
             THEN fail("ValueError")
        ELSE IF idx[n] # ChecksumIdx(data) THEN fail("MoneroChecksumError")
        ELSE [err |-> "", seed |-> EncodeInt(UnDigits(data), KeyLen)]

(***************************************************************************)
(* Wallet entity (HdWalletMonero) and the outcome of a call.               *)
(***************************************************************************)
\* HdWalletMonero(wallet_name, monero_obj, mnemonic = "", seed_bytes = b"")
HdWalletMonero(wallet_name, monero_obj, mnemonic, seed_bytes) ==
    [name |-> wallet_name, keys |-> monero_obj,
     mnemonic |-> mnemonic, seedBytes |-> seed_bytes]

NoWallet == HdWalletMonero("", NoKeys, <<>>, <<>>)

CanSpend(w) == w.keys.privSpend # <<>>

\* a call that returned wallet w, having made the collaborator calls c
Return(w, c) ==
    [kind |-> "wallet", wallet |-> w, exc |-> "", msg |-> "",
     diagPhrase |-> <<>>, diagHex |-> <<>>, generated |-> <<>>, calls |-> c]

\* a call that raised exception exc with message msg and diagnostics
Raise(exc, msg, phrase, hex, c) ==
    [kind |-> "error", wallet |-> NoWallet, exc |-> exc, msg |-> msg,
     diagPhrase |-> phrase, diagHex |-> hex, generated |-> <<>>, calls |-> c]

NoResult ==
    [kind |-> "none", wallet |-> NoWallet, exc |-> "", msg |-> "",
     diagPhrase |-> <<>>, diagHex |-> <<>>, generated |-> <<>>, calls |-> <<>>]

\* the error kind of the facade's taxonomy an outcome carries
ErrorKind(r) ==
    IF r.kind # "error" THEN "None"
    ELSE IF r.exc = "TypeError" THEN "InvalidParameter"
    ELSE IF r.exc = "ValueError" /\ r.msg = "Invalid mnemonic" THEN "InvalidMnemonic"
    ELSE IF r.exc = "ValueError" /\ r.msg = "Invalid private spend key" THEN "InvalidPrivateKey"
    ELSE IF r.exc = "ValueError" /\ r.msg = "Invalid keys for watch-only wallet"
         THEN "InvalidWatchOnlyKeys"
    ELSE "Untranslated"

(***************************************************************************)
(* Construction facade (HdWalletMoneroFactory).                            *)
(***************************************************************************)
\* CreateFromMnemonic catching ValueError only: a checksum error escapes
CreateFromMnemonic_NoChecksumCatch(wallet_name, mnemonic) ==
    LET dec == MnemonicToSeed(mnemonic)
        monero_obj == Monero_FromSeed(dec.seed)
    IN  IF dec.err = "ValueError"
        THEN Raise("ValueError", "Invalid mnemonic", mnemonic, <<>>,
                   <<"MoneroSeedGenerator">>)
        ELSE IF dec.err = "MoneroChecksumError"
        THEN Raise("MoneroChecksumError", "", <<>>, <<>>, <<"MoneroSeedGenerator">>)
        ELSE IF ~monero_obj.ok
        THEN Raise("MoneroKeyError", "", <<>>, <<>>,
                   <<"MoneroSeedGenerator", "Monero.FromSeed">>)
        ELSE Return(HdWalletMonero(wallet_name, monero_obj.keys, mnemonic, dec.seed),
                    <<"MoneroSeedGenerator", "Monero.FromSeed", "HdWalletMonero">>)

\* CreateFromMnemonic that does not hand the seed to the wallet
CreateFromMnemonic_SeedDropped(wallet_name, mnemonic) ==
    LET dec == MnemonicToSeed(mnemonic)
        monero_obj == Monero_FromSeed(dec.seed)
    IN  IF dec.err \in {"ValueError", "MoneroChecksumError"}
        THEN Raise("ValueError", "Invalid mnemonic", mnemonic, <<>>,
                   <<"MoneroSeedGenerator">>)
        ELSE IF ~monero_obj.ok
        THEN Raise("MoneroKeyError", "", <<>>, <<>>,
                   <<"MoneroSeedGenerator", "Monero.FromSeed">>)
        ELSE Return(HdWalletMonero(wallet_name, monero_obj.keys, mnemonic, <<>>),
                    <<"MoneroSeedGenerator", "Monero.FromSeed", "HdWalletMonero">>)

CreateFromMnemonic(wallet_name, mnemonic) ==
    LET dec == MnemonicToSeed(mnemonic)
        monero_obj == Monero_FromSeed(dec.seed)
    IN  IF dec.err \in {"ValueError", "MoneroChecksumError"}
        THEN Raise("ValueError", "Invalid mnemonic", mnemonic, <<>>,
                   <<"MoneroSeedGenerator">>)
        ELSE IF ~monero_obj.ok
        THEN Raise("MoneroKeyError", "", <<>>, <<>>,
                   <<"MoneroSeedGenerator", "Monero.FromSeed">>)
        ELSE Return(HdWalletMonero(wallet_name, monero_obj.keys, mnemonic, dec.seed),
                    <<"MoneroSeedGenerator", "Monero.FromSeed", "HdWalletMonero">>)

\* CreateRandom that checks the words number only
CreateRandom_LangUnchecked(wallet_name, words_num, lang, entropy) ==
    IF words_num.type # "HdWalletMoneroWordsNum"
    THEN Raise("TypeError", "Words number is not an enumerative of HdWalletMoneroWordsNum",
               <<>>, <<>>, <<>>)
    ELSE LET mnemonic == GenerateMnemonic(words_num.value, lang.value, entropy)
             r == CreateFromMnemonic(wallet_name, mnemonic)
         IN  [r EXCEPT !.generated = mnemonic,
                       !.calls = <<"MoneroMnemonicGenerator", "CreateFromMnemonic">> \o @]

CreateRandom(wallet_name, words_num, lang, entropy) ==
    IF words_num.type # "HdWalletMoneroWordsNum"
    THEN Raise("TypeError", "Words number is not an enumerative of HdWalletMoneroWordsNum",
               <<>>, <<>>, <<>>)
    ELSE IF lang.type # "HdWalletMoneroLanguages"
    THEN Raise("TypeError", "Language is not an enumerative of HdWalletMoneroLanguages",
               <<>>, <<>>, <<>>)
    ELSE LET mnemonic == GenerateMnemonic(words_num.value, lang.value, entropy)
             r == CreateFromMnemonic(wallet_name, mnemonic)
         IN  [r EXCEPT !.generated = mnemonic,
                       !.calls = <<"MoneroMnemonicGenerator", "CreateFromMnemonic">> \o @]

\* CreateFromSeed that hashes the seed before handing it to the engine
CreateFromSeed_SeedHashed(wallet_name, seed_bytes) ==
    LET monero_obj == Monero_FromSeed(DeriveViewKeyFromSpendKey(ScReduce(seed_bytes)))
    IN  IF ~monero_obj.ok
        THEN Raise("MoneroKeyError", "", <<>>, <<>>, <<"Monero.FromSeed">>)
        ELSE Return(HdWalletMonero(wallet_name, monero_obj.keys, <<>>, seed_bytes),
                    <<"Monero.FromSeed", "HdWalletMonero">>)

\* CreateFromSeed that does not hand the seed to the wallet
CreateFromSeed_SeedDropped(wallet_name, seed_bytes) ==
    LET monero_obj == Monero_FromSeed(seed_bytes)
    IN  IF ~monero_obj.ok
        THEN Raise("MoneroKeyError", "", <<>>, <<>>, <<"Monero.FromSeed">>)
        ELSE Return(HdWalletMonero(wallet_name, monero_obj.keys, <<>>, <<>>),
                    <<"Monero.FromSeed", "HdWalletMonero">>)

CreateFromSeed(wallet_name, seed_bytes) ==
    LET monero_obj == Monero_FromSeed(seed_bytes)
    IN  IF ~monero_obj.ok
        THEN Raise("MoneroKeyError", "", <<>>, <<>>, <<"Monero.FromSeed">>)
        ELSE Return(HdWalletMonero(wallet_name, monero_obj.keys, <<>>, seed_bytes),
                    <<"Monero.FromSeed", "HdWalletMonero">>)

\* CreateFromPrivateKey without the except clause: MoneroKeyError escapes
CreateFromPrivateKey_NoCatch(wallet_name, priv_skey) ==
    LET monero_obj == Monero_FromPrivateSpendKey(priv_skey)
    IN  IF ~monero_obj.ok
        THEN Raise("MoneroKeyError", "", <<>>, <<>>, <<"Monero.FromPrivateSpendKey">>)
        ELSE Return(HdWalletMonero(wallet_name, monero_obj.keys, <<>>, <<>>),
                    <<"Monero.FromPrivateSpendKey", "HdWalletMonero">>)

CreateFromPrivateKey(wallet_name, priv_skey) ==
    LET monero_obj == Monero_FromPrivateSpendKey(priv_skey)
    IN  IF ~monero_obj.ok
        THEN Raise("ValueError", "Invalid private spend key", <<>>,
                   BytesToHexString(priv_skey), <<"Monero.FromPrivateSpendKey">>)
        ELSE Return(HdWalletMonero(wallet_name, monero_obj.keys, <<>>, <<>>),
                    <<"Monero.FromPrivateSpendKey", "HdWalletMonero">>)

\* CreateFromWatchOnly that builds the keys from the private key alone
CreateFromWatchOnly_AsSpendKey(wallet_name, priv_vkey, pub_skey) ==
    LET monero_obj == Monero_FromPrivateSpendKey(priv_vkey)
    IN  IF ~monero_obj.ok
        THEN Raise("ValueError", "Invalid keys for watch-only wallet", <<>>, <<>>,
                   <<"Monero.FromPrivateSpendKey">>)
        ELSE Return(HdWalletMonero(wallet_name, monero_obj.keys, <<>>, <<>>),
                    <<"Monero.FromPrivateSpendKey", "HdWalletMonero">>)

CreateFromWatchOnly(wallet_name, priv_vkey, pub_skey) ==
    LET monero_obj == Monero_FromWatchOnly(priv_vkey, pub_skey)
    IN  IF ~monero_obj.ok
        THEN Raise("ValueError", "Invalid keys for watch-only wallet", <<>>, <<>>,
                   <<"Monero.FromWatchOnly">>)
        ELSE Return(HdWalletMonero(wallet_name, monero_obj.keys, <<>>, <<>>),
                    <<"Monero.FromWatchOnly", "HdWalletMonero">>)

(***************************************************************************)
(* The caller: inputs of the entry points.                                 *)
(***************************************************************************)
Names == {"w1", "w2"}

ByteLens == {KeyLen - 1, KeyLen, KeyLen + 1}

\* seeds and scalars: every length, values around zero and the group order
ScalarInputs ==
    {EncodeInt(v, KeyLen) : v \in 0..(GroupOrder + 1)}
        \cup {EncodeInt(1, n) : n \in ByteLens}

\* points: valid ones, an encoding of no point, one out of range, a long one
PointInputs ==
    {EncodeInt(v, KeyLen) : v \in {2, 3, 2 * GroupOrder - 1, 2 * GroupOrder + 1}}
        \cup {EncodeInt(3, n) : n \in ByteLens}

WordsNumInputs ==
    [type : {"HdWalletMoneroWordsNum"}, value : WordsNumValues]
        \cup [type : {"int"}, value : {25}]

LanguageInputs ==
    [type : {"HdWalletMoneroLanguages"}, value : {LanguageValues[i] : i \in 1..Len(LanguageValues)}]
        \cup [type : {"str"}, value : {"ENGLISH"}]

ValidPhrases ==
    {GenerateMnemonic(n, "ENGLISH", e) : n \in WordsNumValues, e \in 0..MaxEntropy}
        \cup {GenerateMnemonic(25, "ITALIAN", e) : e \in 0..MaxEntropy}

\* phrases with one word replaced: by a word of the dictionary, by a word
\* outside it (index DictSize), by a word of the other language
MutatedPhrases ==
    {[p EXCEPT ![i] = w] :
        p \in {GenerateMnemonic(13, "ENGLISH", e) : e \in 0..MaxEntropy},
        i \in {1, 13},
        w \in (0..DictSize) \cup {WordOf("ITALIAN", 0)}}

\* phrases with the last word dropped
ShortPhrases ==
    {SubSeq(GenerateMnemonic(n, "ENGLISH", e), 1, n - 1) : n \in {12, 13}, e \in 0..MaxEntropy}

PhraseInputs == ValidPhrases \cup MutatedPhrases \cup ShortPhrases

NoArgs ==
    [wallet_name |-> "", words_num |-> [type |-> "", value |-> 0],
     lang |-> [type |-> "", value |-> ""], mnemonic |-> <<>>,
     seed_bytes |-> <<>>, priv_skey |-> <<>>, priv_vkey |-> <<>>, pub_skey |-> <<>>]

\* what the caller remembers once the call now recorded is followed by another
Remember ==
    IF op \in {"CreateFromSeed", "CreateFromPrivateKey"} /\ result.kind = "wallet"
    THEN [op |-> op,
          input |-> IF op = "CreateFromSeed" THEN args.seed_bytes ELSE args.priv_skey,
          keys |-> result.wallet.keys]
    ELSE prev

Init ==
    /\ op = "none"
    /\ args = NoArgs
    /\ result = NoResult
    /\ prev = [op |-> "none", input |-> <<>>, keys |-> NoKeys]

CallCreateRandom ==
    \E n \in Names, w \in WordsNumInputs, l \in LanguageInputs, e \in 0..MaxEntropy :
        /\ op' = "CreateRandom"
        /\ args' = [NoArgs EXCEPT !.wallet_name = n, !.words_num = w, !.lang = l]
        /\ result' = CreateRandom(n, w, l, e)
        /\ UNCHANGED prev

CallCreateFromMnemonic ==
    \E n \in Names, m \in PhraseInputs :
        /\ op' = "CreateFromMnemonic"
        /\ args' = [NoArgs EXCEPT !.wallet_name = n, !.mnemonic = m]
        /\ result' = CreateFromMnemonic(n, m)
        /\ UNCHANGED prev

CallCreateFromSeed ==
    \E n \in Names, s \in ScalarInputs :
        /\ op' = "CreateFromSeed"
        /\ args' = [NoArgs EXCEPT !.wallet_name = n, !.seed_bytes = s]
        /\ result' = CreateFromSeed(n, s)
        /\ UNCHANGED prev

CallCreateFromPrivateKey ==
    \E n \in Names, k \in ScalarInputs :
        /\ op' = "CreateFromPrivateKey"
        /\ args' = [NoArgs EXCEPT !.wallet_name = n, !.priv_skey = k]
        /\ result' = CreateFromPrivateKey(n, k)
        /\ UNCHANGED prev

CallCreateFromWatchOnly ==
    \E n \in Names, v \in ScalarInputs, p \in PointInputs :
        /\ op' = "CreateFromWatchOnly"
        /\ args' = [NoArgs EXCEPT !.wallet_name = n, !.priv_vkey = v, !.pub_skey = p]
        /\ result' = CreateFromWatchOnly(n, v, p)
        /\ UNCHANGED prev

Next ==
    \/ CallCreateRandom
    \/ CallCreateFromMnemonic
    \/ CallCreateFromSeed
    \/ CallCreateFromPrivateKey
    \/ CallCreateFromWatchOnly

Spec == Init /\ [][Next]_vars

(***************************************************************************)
(* A caller that derives keys twice, by CreateFromSeed or                  *)
(* CreateFromPrivateKey, and keeps the keys of the earlier call.           *)
(***************************************************************************)
DeriveFromSeed ==
    \E n \in Names, s \in ScalarInputs :
        /\ op' = "CreateFromSeed"
        /\ args' = [NoArgs EXCEPT !.wallet_name = n, !.seed_bytes = s]
        /\ result' = CreateFromSeed(n, s)
        /\ prev' = Remember

DeriveFromPrivateKey ==
    \E n \in Names, k \in ScalarInputs :
        /\ op' = "CreateFromPrivateKey"
        /\ args' = [NoArgs EXCEPT !.wallet_name = n, !.priv_skey = k]
        /\ result' = CreateFromPrivateKey(n, k)
        /\ prev' = Remember

NextDerive == DeriveFromSeed \/ DeriveFromPrivateKey

SpecDerive == Init /\ [][NextDerive]_vars

(***************************************************************************)
(* Properties.                                                             *)
(***************************************************************************)
Called(c) == \E i \in 1..Len(result.calls) : result.calls[i] = c

FacadeErrors ==
    {"InvalidParameter", "InvalidMnemonic", "InvalidPrivateKey", "InvalidWatchOnlyKeys"}

\* the invariants of the data model on a wallet
WalletInvariants(w) ==
    /\ Len(w.keys.privView) = KeyLen
    /\ Len(w.keys.pubSpend) = KeyLen
    /\ Len(w.keys.pubView) = KeyLen
    /\ CanSpend(w) =>
          /\ Len(w.keys.privSpend) = KeyLen
          /\ w.keys.privView = DeriveViewKeyFromSpendKey(w.keys.privSpend)
          /\ w.keys.pubSpend = PublicFromPrivate(w.keys.privSpend)
          /\ w.keys.pubView = PublicFromPrivate(w.keys.privView)
    /\ w.mnemonic # <<>> =>
          /\ w.seedBytes # <<>>
          /\ MnemonicToSeed(w.mnemonic).err = ""
          /\ MnemonicToSeed(w.mnemonic).seed = w.seedBytes

\* C1: CreateFromSeed on a seed whose length is not the scheme's seed length
\* fails with InvalidParameter before the key derivation engine is invoked,
\* and returns no wallet.
C1_SeedLengthCheckedUpFront ==
    (op = "CreateFromSeed" /\ Len(args.seed_bytes) # KeyLen) =>
        /\ ErrorKind(result) = "InvalidParameter"
        /\ ~Called("Monero.FromSeed")
        /\ result.kind # "wallet"

\* C2: every call of an entry point ends in a wallet that satisfies the data
\* model's invariants or in one of the facade's typed errors; no failure of
\* a collaborator escapes untranslated.
C2_WalletOrTypedError ==
    op # "none" =>
        \/ result.kind = "wallet" /\ WalletInvariants(result.wallet)
        \/ result.kind = "error" /\ ErrorKind(result) \in FacadeErrors
                                 /\ result.wallet = NoWallet

\* C3: when the decode of the phrase fails, CreateFromMnemonic fails with
\* InvalidMnemonic carrying the supplied phrase, never invokes the key
\* derivation engine and returns no wallet.
C3_DecodeFailureIsInvalidMnemonic ==
    (op = "CreateFromMnemonic" /\ MnemonicToSeed(args.mnemonic).err # "") =>
        /\ ErrorKind(result) = "InvalidMnemonic"
        /\ result.diagPhrase = args.mnemonic
        /\ ~Called("Monero.FromSeed")
        /\ result.kind # "wallet"
        /\ result.wallet = NoWallet

\* a phrase of good words whose checksum word is wrong was refused
C3_Witness ==
    /\ op = "CreateFromMnemonic"
    /\ MnemonicToSeed(args.mnemonic).err = "MoneroChecksumError"
    /\ ErrorKind(result) = "InvalidMnemonic"
    /\ result.diagPhrase = args.mnemonic

\* C4: the wallet CreateFromMnemonic returns for m retains m and the seed m
\* decodes to, with the keys derived from that seed; and in every wallet any
\* entry point returns, a mnemonic comes with the seed it decodes to.
C4_MnemonicRoundTrip ==
    result.kind = "wallet" =>
        /\ op = "CreateFromMnemonic" =>
              /\ result.wallet.mnemonic = args.mnemonic
              /\ result.wallet.seedBytes = MnemonicToSeed(args.mnemonic).seed
              /\ result.wallet.keys = Monero_FromSeed(MnemonicToSeed(args.mnemonic).seed).keys
        /\ result.wallet.mnemonic # <<>> =>
              /\ result.wallet.seedBytes # <<>>
              /\ result.wallet.seedBytes = MnemonicToSeed(result.wallet.mnemonic).seed

\* a 25 word phrase gave a wallet whose seed is not the zero seed
C4_Witness ==
    /\ op = "CreateFromMnemonic"
    /\ result.kind = "wallet"
    /\ Len(result.wallet.mnemonic) = 25
    /\ DecodeInt(result.wallet.seedBytes) > 0

\* C5: CreateRandom with a words number or a language that is no member of
\* its enumeration fails with InvalidParameter: no mnemonic is generated,
\* CreateFromMnemonic is not called and no wallet is returned.
C5_RandomValidatesEnums ==
    (/\ op = "CreateRandom"
     /\ \/ args.words_num.type # "HdWalletMoneroWordsNum"
        \/ args.lang.type # "HdWalletMoneroLanguages") =>
        /\ ErrorKind(result) = "InvalidParameter"
        /\ ~Called("MoneroMnemonicGenerator")
        /\ ~Called("CreateFromMnemonic")
        /\ result.generated = <<>>
        /\ result.kind # "wallet"

\* a valid words number with a language that is a plain string was refused
C5_Witness ==
    /\ op = "CreateRandom"
    /\ args.words_num.type = "HdWalletMoneroWordsNum"
    /\ args.lang.type = "str"
    /\ ErrorKind(result) = "InvalidParameter"

\* C6: for every valid words number and language CreateRandom never fails
\* with InvalidMnemonic and returns a wallet that can spend and retains the
\* generated phrase.
C6_RandomAlwaysYieldsWallet ==
    (/\ op = "CreateRandom"
     /\ args.words_num.type = "HdWalletMoneroWordsNum"
     /\ args.lang.type = "HdWalletMoneroLanguages") =>
        /\ ErrorKind(result) # "InvalidMnemonic"
        /\ result.kind = "wallet"
        /\ CanSpend(result.wallet)
        /\ result.wallet.mnemonic = result.generated

\* C7: CreateFromWatchOnly never returns a wallet that can spend; the wallet
\* it returns has the supplied private view key and public spend key, and
\* the public view key of that private view key.
C7_WatchOnlyCannotSpend ==
    (op = "CreateFromWatchOnly" /\ result.kind = "wallet") =>
        /\ ~CanSpend(result.wallet)
        /\ result.wallet.keys.privSpend = <<>>
        /\ result.wallet.keys.privView = args.priv_vkey
        /\ result.wallet.keys.pubSpend = args.pub_skey
        /\ result.wallet.keys.pubView = PublicFromPrivate(args.priv_vkey)

\* a watch-only wallet was returned, its public spend key not that of its
\* private view key
C7_Witness ==
    /\ op = "CreateFromWatchOnly"
    /\ result.kind = "wallet"
    /\ result.wallet.keys.pubSpend # result.wallet.keys.pubView

\* value of a hexadecimal digit
HexValue(c) == CHOOSE k \in 0..15 : HexDigits[k + 1] = c

\* the hexadecimal digits h spell the bytes b
SpellsBytes(h, b) ==
    /\ Len(h) = 2 * Len(b)
    /\ \A i \in 1..Len(b) : b[i] = 16 * HexValue(h[2 * i - 1]) + HexValue(h[2 * i])

\* C8: a key the engine rejects makes CreateFromPrivateKey fail with
\* InvalidPrivateKey reporting the key in hexadecimal, and keys the engine
\* rejects make CreateFromWatchOnly fail with InvalidWatchOnlyKeys; neither
\* returns a wallet, and key bytes are reported on no other path.
C8_KeyErrorsTranslated ==
    /\ (op = "CreateFromPrivateKey" /\ ~Monero_FromPrivateSpendKey(args.priv_skey).ok) =>
          /\ ErrorKind(result) = "InvalidPrivateKey"
          /\ SpellsBytes(result.diagHex, args.priv_skey)
          /\ result.wallet = NoWallet
    /\ (op = "CreateFromWatchOnly"
            /\ ~Monero_FromWatchOnly(args.priv_vkey, args.pub_skey).ok) =>
          /\ ErrorKind(result) = "InvalidWatchOnlyKeys"
          /\ result.wallet = NoWallet
    /\ result.diagHex # <<>> =>
          /\ op = "CreateFromPrivateKey"
          /\ result.kind = "error"
          /\ ~Monero_FromPrivateSpendKey(args.priv_skey).ok

\* a private key one byte too long was refused and reported
C8_Witness ==
    /\ op = "CreateFromPrivateKey"
    /\ Len(args.priv_skey) = KeyLen + 1
    /\ ErrorKind(result) = "InvalidPrivateKey"
    /\ Len(result.diagHex) = 2 * (KeyLen + 1)

\* the private spend scalar an input of CreateFromSeed or CreateFromPrivateKey
\* stands for
SpendScalar(o, input) == IF o = "CreateFromSeed" THEN ScReduce(input) ELSE input

C10_RetainedProvenance ==
    result.kind = "wallet" =>
        /\ result.wallet.mnemonic # <<>> <=> op \in {"CreateRandom", "CreateFromMnemonic"}
        /\ op = "CreateFromSeed" =>
              /\ result.wallet.seedBytes = args.seed_bytes
              /\ result.wallet.mnemonic = <<>>
        /\ op \in {"CreateFromPrivateKey", "CreateFromWatchOnly"} =>
              /\ result.wallet.mnemonic = <<>>
              /\ result.wallet.seedBytes = <<>>

\* CreateFromSeed returned a wallet that retains a seed one byte short
C10_Witness ==
    /\ op = "CreateFromSeed"
    /\ result.kind = "wallet"
    /\ Len(result.wallet.seedBytes) = KeyLen - 1
    /\ result.wallet.mnemonic = <<>>

====
